---- MODULE Spec2Model ----
(***************************************************************************)
(* Field mask path extraction of graphql-field-mask:                       *)
(* fieldMaskPathsFromResolveInfo -> fieldMaskPaths ->                      *)
(* extractFieldsFromGraphqlAst -> getObjectType.                           *)
(*                                                                         *)
(* A call is a pure, synchronous function of (typename, info, opts).  The  *)
(* initial states draw the arguments from bounded sets of selection trees, *)
(* the action fieldMaskPathsFromResolveInfo applies the function and       *)
(* records what it returned or threw, together with the sequence of schema *)
(* lookups and hook invocations it made.                                   *)
(***************************************************************************)
EXTENDS Integers, Sequences, FiniteSets, TLC

\* JavaScript null / undefined of a string-valued slot.
Null == "<null>"
\* Outcome marker of a call that did not throw.
NoError == "<none>"

(***************************************************************************)
(* Bounds of the explored inputs.                                          *)
(***************************************************************************)
\* Largest number of top-level field nodes (info.fieldNodes) of one call.
MaxNodes == 2
\* Largest total number of selections directly under the top-level nodes.
MaxSelections == 2

(***************************************************************************)
(* Schema fixture: the types the tests build.  A field type is the list of *)
(* its wrappers followed by the type name; fieldMask is the name in        *)
(* extensions.fieldMask.fieldName, Null when the field has no such         *)
(* extension.                                                              *)
(***************************************************************************)
FieldDef(name, type, fieldMaskName) ==
    [name |-> name, type |-> type, fieldMask |-> fieldMaskName]

object1Type ==
    [name |-> "Object1", kind |-> "GraphQLObjectType", astNodeKind |-> "undefined",
     fields |-> ("targetField" :> FieldDef("targetField", <<"NonNull", "String">>, "target_field")
              @@ "otherField" :> FieldDef("otherField", <<"NonNull", "String">>, Null))]

object2Type ==
    [name |-> "Object2", kind |-> "GraphQLObjectType", astNodeKind |-> "undefined",
     fields |-> ("field2" :> FieldDef("field2", <<"String">>, Null))]

unionType ==
    [name |-> "UnionType", kind |-> "GraphQLUnionType", astNodeKind |-> "undefined",
     fields |-> <<>>]

\* The union whose only member is Object1.
childUnion ==
    [name |-> "ChildUnion", kind |-> "GraphQLUnionType", astNodeKind |-> "undefined",
     fields |-> <<>>]

parentType ==
    [name |-> "Parent", kind |-> "GraphQLObjectType", astNodeKind |-> "undefined",
     fields |-> ("parentField" :> FieldDef("parentField", <<"Int">>, Null)
              @@ "object1" :> FieldDef("object1", <<"NonNull", "Object1">>, "object1")
              @@ "union" :> FieldDef("union", <<"NonNull", "UnionType">>, Null)
              @@ "childUnion" :> FieldDef("childUnion", <<"NonNull", "ChildUnion">>, "object1"))]

queryType ==
    [name |-> "Query", kind |-> "GraphQLObjectType", astNodeKind |-> "undefined",
     fields |-> ("object1" :> FieldDef("object1", <<"Object1">>, Null)
              @@ "parent" :> FieldDef("parent", <<"Parent">>, Null)
              @@ "union" :> FieldDef("union", <<"UnionType">>, Null))]

\* An object type whose scalar field has the name of Parent's object-typed
\* field object1.
clashType ==
    [name |-> "Clash", kind |-> "GraphQLObjectType", astNodeKind |-> "undefined",
     fields |-> ("object1" :> FieldDef("object1", <<"String">>, Null))]

scalarType(name) ==
    [name |-> name, kind |-> "GraphQLScalarType", astNodeKind |-> "undefined",
     fields |-> <<>>]

createSchema ==
    "Query" :> queryType @@ "Parent" :> parentType @@ "Object1" :> object1Type
    @@ "Object2" :> object2Type @@ "UnionType" :> unionType @@ "ChildUnion" :> childUnion
    @@ "Clash" :> clashType
    @@ "String" :> scalarType("String") @@ "Int" :> scalarType("Int")

\* graphql's getNamedType: strip the list and non-null wrappers.
RECURSIVE getNamedType(_)
getNamedType(type) ==
    IF Len(type) = 1 THEN type[1] ELSE getNamedType(Tail(type))

(***************************************************************************)
(* Query AST.  Every node carries the same slots; a slot a node kind does  *)
(* not have holds Null (or FALSE / the empty list).                        *)
(***************************************************************************)
FieldNode(alias, name) ==
    [kind |-> "Field", name |-> name, alias |-> alias, typeCondition |-> Null,
     hasSelectionSet |-> FALSE, selections |-> <<>>]

FieldNodeWith(alias, name, selections) ==
    [kind |-> "Field", name |-> name, alias |-> alias, typeCondition |-> Null,
     hasSelectionSet |-> TRUE, selections |-> selections]

FragmentSpreadNode(name) ==
    [kind |-> "FragmentSpread", name |-> name, alias |-> Null, typeCondition |-> Null,
     hasSelectionSet |-> FALSE, selections |-> <<>>]

InlineFragmentNode(typeCondition, selections) ==
    [kind |-> "InlineFragment", name |-> Null, alias |-> Null,
     typeCondition |-> typeCondition, hasSelectionSet |-> TRUE, selections |-> selections]

FragmentDefinitionNode(name, typeCondition, selections) ==
    [kind |-> "FragmentDefinition", name |-> name, alias |-> Null,
     typeCondition |-> typeCondition, hasSelectionSet |-> TRUE, selections |-> selections]

(***************************************************************************)
(* Options: the getFieldName hooks a caller may pass, and the other option *)
(* keys of the tests and the changelog, which the function never reads.    *)
(***************************************************************************)
\* The tests' hook: field.extensions.fieldMask?.fieldName ?? null.
getFieldNameFromExtensions(field, type) == field.fieldMask

\* A renaming hook: the object-typed field object1 is called c in the mask.
getFieldNameRenaming(field, type) ==
    IF field.name = "object1" THEN "c" ELSE field.name

\* The array ["a", "b"] as a value a hook returns.
ArrayAB == "[a, b]"

\* A hook that returns several names for object1, one name for the fields of
\* Object1, and throws for a field it does not know.
getFieldNameFanOut(field, type) ==
    IF field.name = "object1" THEN ArrayAB
    ELSE IF field.name = "targetField" THEN "x"
    ELSE IF field.name = "otherField" THEN "y"
    ELSE field.name

\* The Error the hook throws, NoError when it returns.
getFieldNameThrows(opts, field, type) ==
    IF opts.getFieldName = "fanOut" /\ field.name = "field2"
    THEN "unknown field: " \o field.name
    ELSE NoError

GetFieldNameFuncs == {"undefined", "extensions", "renaming", "fanOut"}

\* opts.getFieldName(field, type, schema)
getFieldName(opts, field, type) ==
    IF opts.getFieldName = "extensions" THEN getFieldNameFromExtensions(field, type)
    ELSE IF opts.getFieldName = "fanOut" THEN getFieldNameFanOut(field, type)
    ELSE getFieldNameRenaming(field, type)

\* `${fieldName}`: an array is joined with ",", a string is itself.
templateString(fieldName) == IF fieldName = ArrayAB THEN "a,b" ELSE fieldName

\* The options objects a caller passes: getFieldName alone, or the hooks
\* getAbstractTypeFieldMaskPaths (paths of a member prefixed by the member's
\* name in lower case) and addExtraFields (dep1, dep2 for object1).
Options ==
    [getFieldName : GetFieldNameFuncs,
     getAbstractTypeFieldMaskPaths : {"undefined"},
     addExtraFields : {"undefined"}]
    \cup { [getFieldName |-> "undefined",
            getAbstractTypeFieldMaskPaths |-> "prefixByMember",
            addExtraFields |-> "deps"] }

(***************************************************************************)
(* The extraction.  A thrown Error is the err slot of the value an         *)
(* operator yields; log is the sequence of schema lookups and hook         *)
(* invocations made so far.                                                *)
(***************************************************************************)
\* Mutant of getObjectType: the null check is missing, an absent type fails
\* the instanceof check.
getObjectTypeNoNullCheck(name) ==
    IF name \notin DOMAIN createSchema
    THEN [err |-> name \o " is undefined, but want ObjectType", type |-> Null]
    ELSE IF createSchema[name].kind # "GraphQLObjectType"
    THEN [err |-> name \o " is " \o createSchema[name].astNodeKind \o ", but want ObjectType",
          type |-> Null]
    ELSE [err |-> NoError, type |-> createSchema[name]]

\* Mutant of getObjectType: the instanceof check is missing, any type found
\* is returned.
getObjectTypeAnyKind(name) ==
    IF name \notin DOMAIN createSchema
    THEN [err |-> name \o " type is not found", type |-> Null]
    ELSE [err |-> NoError, type |-> createSchema[name]]

getObjectType(name) ==
    IF name \notin DOMAIN createSchema
    THEN [err |-> name \o " type is not found", type |-> Null]
    ELSE IF createSchema[name].kind # "GraphQLObjectType"
    THEN [err |-> name \o " is " \o createSchema[name].astNodeKind \o ", but want ObjectType",
          type |-> Null]
    ELSE [err |-> NoError, type |-> createSchema[name]]

\* childFields.map((field) => `${fieldName}.${field}`)
\* Mutant of mapPrefix: a field whose sub-selection yields nothing is
\* emitted by its own name.
mapPrefixOrSelf(fieldName, childFields) ==
    IF childFields = <<>> THEN <<fieldName>>
    ELSE [k \in 1..Len(childFields) |->
            templateString(fieldName) \o "." \o templateString(childFields[k])]

RECURSIVE mapPrefix(_, _)
mapPrefix(fieldName, childFields) ==
    IF childFields = <<>> THEN <<>>
    ELSE <<templateString(fieldName) \o "." \o templateString(Head(childFields))>>
         \o mapPrefix(fieldName, Tail(childFields))

RECURSIVE extractFieldsFromGraphqlAst(_, _, _, _)
RECURSIVE forSelections(_, _, _, _, _)

\* Mutant of isTypenameField: __typename is looked up like any other field.
isTypenameFieldNever(selection) == FALSE

\* if (selection.name.value === "__typename") break;
isTypenameField(selection) == selection.name = "__typename"

\* Mutant of outputFieldName: without a hook the response key (the alias, when
\* there is one) names the path.
outputFieldNameOfAlias(opts, selection, field, type) ==
    IF opts.getFieldName # "undefined" THEN getFieldName(opts, field, type)
    ELSE IF selection.alias # Null THEN selection.alias ELSE field.name

\* opts.getFieldName ? opts.getFieldName(field, type, schema) : field.name
outputFieldName(opts, selection, field, type) ==
    IF opts.getFieldName # "undefined" THEN getFieldName(opts, field, type) ELSE field.name

\* Mutant of isSuppressed: the null check is missing.
isSuppressedNever(fieldName) == FALSE

\* if (fieldName == null) break;
isSuppressed(fieldName) == fieldName = Null

\* Mutant of fieldChildTypename: the declared type is used without unwrapping.
fieldChildTypenameWrapped(field) == field.type[1]

\* const childTypename = getNamedType(field.type).name;
fieldChildTypename(field) == getNamedType(field.type)

\* Mutant of unknownFieldError: the message names the field only.
unknownFieldErrorNameOnly(typename, selection) == selection.name \o " is not found"

\* throw new Error(`${typename}.${selection.name.value} is not found`)
unknownFieldError(typename, selection) ==
    typename \o "." \o selection.name \o " is not found"

\* Mutant of inlineFragmentTypename: the type condition is read even when the
\* inline fragment has none.
inlineFragmentTypenameOfCondition(selection, typename) == selection.typeCondition

\* selection.typeCondition ? selection.typeCondition.name.value : typename
inlineFragmentTypename(selection, typename) ==
    IF selection.typeCondition # Null THEN selection.typeCondition ELSE typename

\* case "Field"
caseField(typename, selection, fragments, opts, acc) ==
    IF isTypenameField(selection) THEN acc
    ELSE
    LET found == getObjectType(typename)
        log1 == Append(acc.log, <<"getType", typename, Null>>)
    IN
    IF found.err # NoError THEN [acc EXCEPT !.err = found.err, !.log = log1]
    ELSE
    LET type == found.type
        log2 == Append(log1, <<"getFields", typename, selection.name>>)
    IN
    IF selection.name \notin DOMAIN type.fields
    THEN [acc EXCEPT !.err = unknownFieldError(typename, selection), !.log = log2]
    ELSE
    LET field == type.fields[selection.name]
        hooked == opts.getFieldName # "undefined"
        fieldName == outputFieldName(opts, selection, field, type)
        log3 == IF hooked THEN Append(log2, <<"getFieldName", type.name, field.name>>)
                ELSE log2
    IN
    IF hooked /\ getFieldNameThrows(opts, field, type) # NoError
    THEN [acc EXCEPT !.err = getFieldNameThrows(opts, field, type), !.log = log3]
    ELSE IF isSuppressed(fieldName) THEN [acc EXCEPT !.log = log3]
    ELSE IF selection.hasSelectionSet
    THEN LET childTypename == fieldChildTypename(field)
             child == extractFieldsFromGraphqlAst(childTypename, selection, fragments, opts)
         IN  IF child.err # NoError
             THEN [acc EXCEPT !.err = child.err, !.log = log3 \o child.log]
             ELSE [acc EXCEPT !.fields = @ \o mapPrefix(fieldName, child.fields),
                              !.log = log3 \o child.log]
    ELSE [acc EXCEPT !.fields = Append(@, fieldName), !.log = log3]

\* The FragmentSpread case once the fragment is found.
spreadFragment(fragment, fragments, opts, acc) ==
    LET childTypename == fragment.typeCondition
        child == extractFieldsFromGraphqlAst(childTypename, fragment, fragments, opts)
    IN  IF child.err # NoError
        THEN [acc EXCEPT !.err = child.err, !.log = @ \o child.log]
        ELSE [acc EXCEPT !.fields = @ \o child.fields, !.log = @ \o child.log]

\* Mutant of caseFragmentSpread: a spread of an unknown fragment is skipped.
caseFragmentSpreadSkipUnknown(typename, selection, fragments, opts, acc) ==
    IF selection.name \notin DOMAIN fragments THEN acc
    ELSE spreadFragment(fragments[selection.name], fragments, opts, acc)

\* case "FragmentSpread"
caseFragmentSpread(typename, selection, fragments, opts, acc) ==
    LET fragmentName == selection.name IN
    IF fragmentName \notin DOMAIN fragments
    THEN [acc EXCEPT !.err = "Fragment " \o fragmentName \o " is not found"]
    ELSE spreadFragment(fragments[fragmentName], fragments, opts, acc)

\* Mutant of caseInlineFragment: an inline fragment is skipped when the
\* current typename is not an object type.
caseInlineFragmentUnderObjectOnly(typename, selection, fragments, opts, acc) ==
    IF typename \in DOMAIN createSchema /\ createSchema[typename].kind # "GraphQLObjectType"
    THEN acc
    ELSE LET childTypename == inlineFragmentTypename(selection, typename)
             child == extractFieldsFromGraphqlAst(childTypename, selection, fragments, opts)
         IN  IF child.err # NoError
             THEN [acc EXCEPT !.err = child.err, !.log = @ \o child.log]
             ELSE [acc EXCEPT !.fields = @ \o child.fields, !.log = @ \o child.log]

\* case "InlineFragment"
caseInlineFragment(typename, selection, fragments, opts, acc) ==
    LET childTypename == inlineFragmentTypename(selection, typename)
        child == extractFieldsFromGraphqlAst(childTypename, selection, fragments, opts)
    IN  IF child.err # NoError
        THEN [acc EXCEPT !.err = child.err, !.log = @ \o child.log]
        ELSE [acc EXCEPT !.fields = @ \o child.fields, !.log = @ \o child.log]

\* for (const selection of node.selectionSet.selections) switch (selection.kind)
forSelections(typename, selections, fragments, opts, acc) ==
    IF selections = <<>> \/ acc.err # NoError THEN acc
    ELSE LET selection == Head(selections)
             next == CASE selection.kind = "Field" ->
                            caseField(typename, selection, fragments, opts, acc)
                       [] selection.kind = "FragmentSpread" ->
                            caseFragmentSpread(typename, selection, fragments, opts, acc)
                       [] selection.kind = "InlineFragment" ->
                            caseInlineFragment(typename, selection, fragments, opts, acc)
                       [] OTHER -> acc
         IN  forSelections(typename, Tail(selections), fragments, opts, next)

extractFieldsFromGraphqlAst(typename, node, fragments, opts) ==
    IF ~node.hasSelectionSet THEN [err |-> NoError, fields |-> <<>>, log |-> <<>>]
    ELSE forSelections(typename, node.selections, fragments, opts,
                       [err |-> NoError, fields |-> <<>>, log |-> <<>>])

\* Mutant of pathSetAdd: an array push, the path is added again.
pathSetAddPush(pathSet, path) == Append(pathSet, path)

\* Mutant of pathSetAdd: adding a path again moves it to the end.
pathSetAddMoveToEnd(pathSet, path) ==
    Append(SelectSeq(pathSet, LAMBDA p : p # path), path)

\* Set.prototype.add on an insertion-ordered Set, held as a duplicate-free list.
pathSetAdd(pathSet, path) ==
    IF \E k \in 1..Len(pathSet) : pathSet[k] = path THEN pathSet
    ELSE Append(pathSet, path)

RECURSIVE addAll(_, _)
addAll(pathSet, paths) ==
    IF paths = <<>> THEN pathSet
    ELSE addAll(pathSetAdd(pathSet, Head(paths)), Tail(paths))

\* Mutant of forNodes: a node whose walk throws is skipped, the paths of the
\* other nodes are still returned.
RECURSIVE forNodesBestEffort(_, _, _, _, _)
forNodesBestEffort(typename, nodes, fragments, opts, acc) ==
    IF nodes = <<>> THEN acc
    ELSE LET walked == extractFieldsFromGraphqlAst(typename, Head(nodes), fragments, opts)
             next == IF walked.err # NoError
                     THEN [acc EXCEPT !.log = @ \o walked.log]
                     ELSE [acc EXCEPT !.pathSet = addAll(@, walked.fields),
                                      !.log = @ \o walked.log]
         IN  forNodesBestEffort(typename, Tail(nodes), fragments, opts, next)

\* for (const node of nodes) for (const path of extract...(node)) pathSet.add(path)
RECURSIVE forNodes(_, _, _, _, _)
forNodes(typename, nodes, fragments, opts, acc) ==
    IF nodes = <<>> \/ acc.err # NoError THEN acc
    ELSE LET walked == extractFieldsFromGraphqlAst(typename, Head(nodes), fragments, opts)
             next == IF walked.err # NoError
                     THEN [acc EXCEPT !.err = walked.err, !.log = @ \o walked.log]
                     ELSE [acc EXCEPT !.pathSet = addAll(@, walked.fields),
                                      !.log = @ \o walked.log]
         IN  forNodes(typename, Tail(nodes), fragments, opts, next)

fieldMaskPaths(typename, nodes, fragments, opts) ==
    forNodes(typename, nodes, fragments, opts,
             [err |-> NoError, pathSet |-> <<>>, log |-> <<>>])

(***************************************************************************)
(* The explored inputs.                                                    *)
(***************************************************************************)
\* info.fragments of the tests' queries.
Fragments ==
    "Object1" :> FragmentDefinitionNode("Object1", "Object1",
                    <<FieldNode(Null, "targetField"), FieldNode(Null, "otherField")>>)
    @@ "Object2" :> FragmentDefinitionNode("Object2", "Object2",
                    <<FieldNode(Null, "field2")>>)
    @@ "Union" :> FragmentDefinitionNode("Union", "UnionType",
                    <<FragmentSpreadNode("Object1"), FragmentSpreadNode("Object2")>>)

\* Root typenames a resolver passes; Object11111 is not in the schema.  No
\* fragment of Fragments spreads itself, so every walk is finite.
Typenames == {"Query", "Parent", "Object1", "Object2", "UnionType", "Object11111"}

\* The selections a top-level node's selection set is made of.
Selections ==
    { FieldNode(Null, "targetField"),
      FieldNode("aliasedField", "targetField"),
      FieldNode(Null, "otherField"),
      FieldNode(Null, "field2"),
      FieldNode(Null, "parentField"),
      FieldNode(Null, "__typename"),
      FragmentSpreadNode("Object1"),
      FragmentSpreadNode("Object2"),
      FragmentSpreadNode("Union"),
      FragmentSpreadNode("Missing"),
      InlineFragmentNode("Object1",
          <<FieldNode(Null, "targetField"), FieldNode(Null, "otherField")>>),
      InlineFragmentNode("Object2", <<FieldNode(Null, "field2")>>),
      InlineFragmentNode(Null, <<FieldNode(Null, "targetField")>>),
      FieldNodeWith(Null, "object1",
          <<FieldNode(Null, "targetField"), FieldNode(Null, "otherField")>>),
      FieldNodeWith(Null, "object1",
          <<FieldNode(Null, "__typename"), FieldNode("aliasedField", "targetField")>>),
      FieldNodeWith(Null, "union",
          <<InlineFragmentNode("Object1",
                <<FieldNode(Null, "targetField"), FieldNode(Null, "otherField")>>),
            FragmentSpreadNode("Object2")>>),
      FieldNodeWith(Null, "parent",
          <<FieldNodeWith(Null, "object1", <<FieldNode(Null, "targetField")>>)>>),
      FieldNodeWith(Null, "childUnion",
          <<InlineFragmentNode("Object1",
                <<FieldNode(Null, "targetField"), FieldNode(Null, "otherField")>>)>>),
      InlineFragmentNode("Object11111", <<FieldNode(Null, "__typename")>>) }

SeqsFromTo(S, m, n) == UNION { [1..k -> S] : k \in m..n }

\* The k-th of the selection sets that the cut positions split flat into.
segment(flat, cuts, k) ==
    LET starts == {1} \cup { c + 1 : c \in cuts }
        startOf(j) == CHOOSE st \in starts : Cardinality({ x \in starts : x < st }) = j - 1
        endOf(j) == IF j = Cardinality(starts) THEN Len(flat) ELSE startOf(j + 1) - 1
    IN  SubSeq(flat, startOf(k), endOf(k))

\* info.fieldNodes: the occurrences of the resolved field in the query, each
\* with a non-empty selection set.
FieldNodes ==
    { [k \in 1..(Cardinality(cuts) + 1) |->
          FieldNodeWith(Null, "resolved", segment(flat, cuts, k))] :
        <<flat, cuts>> \in
          { fc \in SeqsFromTo(Selections, 1, MaxSelections) \X SUBSET (1..(MaxSelections - 1)) :
              /\ fc[2] \subseteq 1..(Len(fc[1]) - 1)
              /\ Cardinality(fc[2]) + 1 <= MaxNodes } }

(***************************************************************************)
(* State: the arguments of the call and its outcome.                       *)
(***************************************************************************)
VARIABLES typename, info, opts, pc, paths, error, log, stack, rest, pathSets, other

vars == <<typename, info, opts, pc, paths, error, log, stack, rest, pathSets, other>>

\* The Sets the calls accumulate into, by accumulator, before any call.
NoPathSets == [a \in {1, 2} |-> <<>>]

\* No other call of the entry point has been made.
NoOther == [done |-> FALSE, typename |-> Null, err |-> NoError, paths |-> <<>>]

Init ==
    /\ typename \in Typenames
    /\ info \in [fieldNodes : FieldNodes, fragments : {Fragments}]
    /\ opts \in Options
    /\ pc = "called"
    /\ paths = <<>>
    /\ error = NoError
    /\ log = <<>>
    /\ stack = <<>>
    /\ rest = <<>>
    /\ pathSets = NoPathSets
    /\ other = NoOther

\* fieldMaskPathsFromResolveInfo(typename, info, opts)
fieldMaskPathsFromResolveInfo ==
    /\ pc = "called"
    /\ LET out == fieldMaskPaths(typename, info.fieldNodes, info.fragments, opts)
       IN  /\ pc' = IF out.err = NoError THEN "returned" ELSE "thrown"
           /\ paths' = IF out.err = NoError THEN out.pathSet ELSE <<>>
           /\ error' = out.err
           /\ log' = out.log
    /\ UNCHANGED <<typename, info, opts, stack, rest, pathSets, other>>

Next == fieldMaskPathsFromResolveInfo

Spec == Init /\ [][Next]_vars

(***************************************************************************)
(* The same call taken one step at a time: stack holds the activations of  *)
(* extractFieldsFromGraphqlAst, the innermost last, each with the          *)
(* selections its loop has still to visit and the fields it has pushed;    *)
(* rest holds the top-level nodes fieldMaskPaths has still to walk, and    *)
(* pathSets the Set of each call of the entry point.                       *)
(***************************************************************************)
\* The depth of recursion at which the engine throws a RangeError.
MaxDepth == 6

\* The top-level nodes of a call, at most.
MaxCallNodes == 2

StackOverflow == "RangeError: Maximum call stack size exceeded"

\* Mutant of accumulator: the Set is created once, outside the function, and
\* every call adds to it.
accumulatorShared(call) == 1

\* const pathSet = new Set<string>(): every call creates its own.
accumulator(call) == call

\* Mutant of spreadTarget: the recursion is made on the enclosing node.
spreadTargetNode(node, fragment) == node

\* The node the FragmentSpread case recurses on.
spreadTarget(node, fragment) == fragment

\* The activation extractFieldsFromGraphqlAst(typename, node, ...); fieldName
\* is the prefix the Field case maps over what the activation returns, Null
\* in the other cases.
Frame(name, node, fieldName) ==
    [typename |-> name, node |-> node, selections |-> node.selections,
     fields |-> <<>>, fieldName |-> fieldName]

\* One iteration of the loop over the selections of the activation frame:
\* the error it throws, the fields it pushes without recursing, and the
\* activation it starts when it recurses.
visit(frame, fragments, options) ==
    LET selection == Head(frame.selections)
        none == [err |-> NoError, fields |-> <<>>, call |-> <<>>]
    IN
    IF selection.kind = "FragmentSpread"
    THEN IF selection.name \notin DOMAIN fragments
         THEN [none EXCEPT !.err = "Fragment " \o selection.name \o " is not found"]
         ELSE LET fragment == fragments[selection.name]
              IN  [none EXCEPT !.call = <<Frame(fragment.typeCondition,
                                                spreadTarget(frame.node, fragment), Null)>>]
    ELSE IF selection.kind = "InlineFragment"
    THEN [none EXCEPT !.call = <<Frame(inlineFragmentTypename(selection, frame.typename),
                                       selection, Null)>>]
    ELSE IF isTypenameField(selection) THEN none
    ELSE
    LET found == getObjectType(frame.typename) IN
    IF found.err # NoError THEN [none EXCEPT !.err = found.err]
    ELSE IF selection.name \notin DOMAIN found.type.fields
    THEN [none EXCEPT !.err = unknownFieldError(frame.typename, selection)]
    ELSE
    LET field == found.type.fields[selection.name]
        fieldName == outputFieldName(options, selection, field, found.type)
    IN
    IF options.getFieldName # "undefined" /\ getFieldNameThrows(options, field, found.type) # NoError
    THEN [none EXCEPT !.err = getFieldNameThrows(options, field, found.type)]
    ELSE IF isSuppressed(fieldName) THEN none
    ELSE IF selection.hasSelectionSet
    THEN [none EXCEPT !.call = <<Frame(fieldChildTypename(field), selection, fieldName)>>]
    ELSE [none EXCEPT !.fields = <<fieldName>>]

\* Mutant of returned: what a fragment on a union type yields is dropped.
returnedUnlessUnion(frame) ==
    IF frame.fieldName # Null THEN mapPrefix(frame.fieldName, frame.fields)
    ELSE IF /\ frame.typename \in DOMAIN createSchema
            /\ createSchema[frame.typename].kind = "GraphQLUnionType"
    THEN <<>>
    ELSE frame.fields

\* What an activation returns to the activation that started it.
returned(frame) ==
    IF frame.fieldName = Null THEN frame.fields
    ELSE mapPrefix(frame.fieldName, frame.fields)

\* The fragment table of the tests with fragments that spread themselves:
\* Loop directly, Ping and Pong through each other.
CyclicFragments ==
    Fragments
    @@ "Loop" :> FragmentDefinitionNode("Loop", "Object1",
                    <<FieldNode(Null, "targetField"), FragmentSpreadNode("Loop")>>)
    @@ "Ping" :> FragmentDefinitionNode("Ping", "Object1", <<FragmentSpreadNode("Pong")>>)
    @@ "Pong" :> FragmentDefinitionNode("Pong", "Object1",
                    <<FieldNode(Null, "otherField"), FragmentSpreadNode("Ping")>>)

\* The selection sets of the top-level nodes of the stepwise calls.
StepSelectionSets ==
    { <<FieldNode(Null, "targetField"), FieldNode(Null, "otherField")>>,
      <<FragmentSpreadNode("Object1"), FragmentSpreadNode("Object2")>>,
      <<FieldNodeWith(Null, "object1", <<FieldNode(Null, "__typename")>>)>>,
      <<FieldNodeWith(Null, "object1", <<>>)>>,
      <<FieldNodeWith(Null, "object1", <<FieldNode(Null, "otherField")>>),
        FieldNode(Null, "parentField")>>,
      <<FieldNodeWith(Null, "union",
            <<FragmentSpreadNode("Object1"), FragmentSpreadNode("Object2")>>)>>,
      <<FieldNodeWith(Null, "union", <<FragmentSpreadNode("Union")>>)>>,
      <<FieldNodeWith(Null, "union",
            <<InlineFragmentNode("UnionType",
                  <<FragmentSpreadNode("Object1"), FragmentSpreadNode("Object2")>>)>>)>>,
      <<InlineFragmentNode("Clash", <<FieldNode("name", "object1")>>),
        FieldNodeWith(Null, "object1", <<FieldNode(Null, "targetField")>>)>>,
      <<FragmentSpreadNode("Loop")>>,
      <<FieldNode(Null, "targetField"), FragmentSpreadNode("Ping")>> }

StepFieldNodes ==
    { [k \in 1..Len(sets) |-> FieldNodeWith(Null, "resolved", sets[k])] :
        sets \in SeqsFromTo(StepSelectionSets, 1, MaxCallNodes) }

\* The root typenames of the stepwise calls, and of the other call made
\* on the same nodes.
StepTypenames == {"Parent", "Object1"}

OtherTypenames == {"Object1", "Query"}

StepOptions ==
    { o \in Options :
        o.getFieldName \in {"undefined", "extensions"} }

\* The names of the fragments spread anywhere in the selections.
RECURSIVE spreadsIn(_)
spreadsIn(selections) ==
    UNION { IF selections[k].kind = "FragmentSpread" THEN {selections[k].name}
            ELSE spreadsIn(selections[k].selections) : k \in 1..Len(selections) }

\* The fragments of the table reachable from the names through spreads.
RECURSIVE spreadClosure(_, _)
spreadClosure(names, fragments) ==
    LET more == names \cup UNION { spreadsIn(fragments[n].selections) :
                                     n \in names \cap DOMAIN fragments }
    IN  IF more = names THEN names ELSE spreadClosure(more, fragments)

\* A fragment reachable from the nodes spreads itself, directly or through
\* other fragments.
reachesCycle(nodes, fragments) ==
    \E n \in spreadClosure(spreadsIn(nodes), fragments) \cap DOMAIN fragments :
        n \in spreadClosure(spreadsIn(fragments[n].selections), fragments)

StepInit ==
    /\ typename \in StepTypenames
    /\ info \in [fieldNodes : StepFieldNodes, fragments : {Fragments, CyclicFragments}]
    /\ opts \in StepOptions
    /\ pc = "called"
    /\ paths = <<>>
    /\ error = NoError
    /\ log = <<>>
    /\ stack = <<>>
    /\ rest = <<>>
    /\ pathSets = NoPathSets
    /\ other = NoOther

top == stack[Len(stack)]

\* The stack with its innermost activation replaced.
withTop(frame) == [stack EXCEPT ![Len(stack)] = frame]

\* fieldMaskPaths is entered and calls the walker on the first node.
enter ==
    /\ pc = "called"
    /\ pc' = "walking"
    /\ stack' = <<Frame(typename, Head(info.fieldNodes), Null)>>
    /\ rest' = Tail(info.fieldNodes)
    /\ UNCHANGED <<typename, info, opts, paths, error, log, pathSets, other>>

\* One iteration of the loop of the innermost activation.
visitSelection ==
    /\ pc = "walking"
    /\ top.selections # <<>>
    /\ LET step == visit(top, info.fragments, opts)
           advanced == [top EXCEPT !.selections = Tail(@), !.fields = @ \o step.fields]
           thrown == IF step.err # NoError THEN step.err
                     ELSE IF step.call # <<>> /\ Len(stack) >= MaxDepth THEN StackOverflow
                     ELSE NoError
       IN  IF thrown # NoError
           THEN /\ pc' = "thrown"
                /\ error' = thrown
                /\ stack' = <<>>
                /\ rest' = <<>>
           ELSE /\ stack' = withTop(advanced) \o step.call
                /\ UNCHANGED <<pc, error, rest>>
    /\ UNCHANGED <<typename, info, opts, paths, log, pathSets, other>>

\* The innermost activation returns its fields to the activation that
\* started it.
returnFields ==
    /\ pc = "walking"
    /\ Len(stack) > 1
    /\ top.selections = <<>>
    /\ LET caller == stack[Len(stack) - 1]
       IN  stack' = Append(SubSeq(stack, 1, Len(stack) - 2),
                           [caller EXCEPT !.fields = @ \o returned(top)])
    /\ UNCHANGED <<typename, info, opts, pc, paths, error, log, rest, pathSets, other>>

\* The walk of a top-level node returns: its paths are added to the Set, and
\* the next node is walked or the Set is returned as a list.
nextNode ==
    /\ pc = "walking"
    /\ Len(stack) = 1
    /\ top.selections = <<>>
    /\ pathSets' = [pathSets EXCEPT ![accumulator(1)] = addAll(@, returned(top))]
    /\ IF rest = <<>>
       THEN /\ pc' = "returned"
            /\ paths' = pathSets'[accumulator(1)]
            /\ stack' = <<>>
            /\ rest' = <<>>
       ELSE /\ stack' = <<Frame(typename, Head(rest), Null)>>
            /\ rest' = Tail(rest)
            /\ UNCHANGED <<pc, paths>>
    /\ UNCHANGED <<typename, info, opts, error, log, other>>

\* Another call of the entry point, on the same nodes with a root typename
\* of its own, runs from its start to its end: before the call, after it,
\* or from inside it (a resolver or a hook calling the entry point).
otherCall ==
    /\ ~other.done
    /\ ~reachesCycle(info.fieldNodes, info.fragments)
    /\ \E name \in OtherTypenames :
          LET out == forNodes(name, info.fieldNodes, info.fragments, opts,
                              [err |-> NoError, pathSet |-> pathSets[accumulator(2)],
                               log |-> <<>>])
          IN  /\ pathSets' = [pathSets EXCEPT ![accumulator(2)] = out.pathSet]
              /\ other' = [done |-> TRUE, typename |-> name, err |-> out.err,
                           paths |-> IF out.err = NoError THEN out.pathSet ELSE <<>>]
    /\ UNCHANGED <<typename, info, opts, pc, paths, error, log, stack, rest>>

StepNext == enter \/ visitSelection \/ returnFields \/ nextNode \/ otherCall

\* The engine runs a call that has started to its end.
SpecSteps ==
    StepInit /\ [][StepNext]_vars
    /\ WF_vars(enter \/ visitSelection \/ returnFields \/ nextNode)

(***************************************************************************)
(* Helpers of the properties.                                              *)
(***************************************************************************)
Returned == pc = "returned"

RECURSIVE concat(_)
concat(lists) == IF lists = <<>> THEN <<>> ELSE Head(lists) \o concat(Tail(lists))

\* What the walker yields for one top-level node of the call.
walkOf(node) == extractFieldsFromGraphqlAst(typename, node, info.fragments, opts)

\* The walker's path lists of the top-level nodes, in the given order.
walkedPaths ==
    concat([k \in 1..Len(info.fieldNodes) |-> walkOf(info.fieldNodes[k]).fields])

\* The paths of every selection of every top-level node walked on its own,
\* in the order of the nodes and of the selections in them.
walkedBySelection ==
    concat([k \in 1..Len(info.fieldNodes) |->
        concat([j \in 1..Len(info.fieldNodes[k].selections) |->
            walkOf(FieldNodeWith(Null, "resolved",
                                 <<info.fieldNodes[k].selections[j]>>)).fields])])

firstIndex(list, x) ==
    CHOOSE i \in 1..Len(list) : list[i] = x /\ \A j \in 1..(i - 1) : list[j] # x

Elements(list) == { list[k] : k \in 1..Len(list) }

\* The outcome of the call as the caller observes it.
outcome == [err |-> error, paths |-> paths, log |-> log]

\* The outcome the same call has on other top-level nodes.
outcomeOn(nodes) ==
    LET out == fieldMaskPaths(typename, nodes, info.fragments, opts)
    IN  [err |-> out.err,
         paths |-> IF out.err = NoError THEN out.pathSet ELSE <<>>,
         log |-> out.log]

mapNodes(Op(_), nodes) == [k \in 1..Len(nodes) |-> Op(nodes[k])]

\* The top-level selections of the call, over all top-level nodes.
topSelections == concat(mapNodes(LAMBDA node : node.selections, info.fieldNodes))

isObjectTypename(name) ==
    name \in DOMAIN createSchema /\ createSchema[name].kind = "GraphQLObjectType"

hasField(name, fieldName) ==
    isObjectTypename(name) /\ fieldName \in DOMAIN createSchema[name].fields

\* The node with every alias removed, at every depth.
RECURSIVE withoutAlias(_)
withoutAlias(node) ==
    [node EXCEPT !.alias = Null, !.selections = mapNodes(withoutAlias, node.selections)]

\* The node with every __typename selection removed, at every depth.
RECURSIVE withoutTypename(_)
withoutTypename(node) ==
    [node EXCEPT !.selections =
        mapNodes(withoutTypename,
                 SelectSeq(node.selections,
                           LAMBDA sel : ~(sel.kind = "Field" /\ sel.name = "__typename")))]

\* The hook is configured and answers null for this selection under name.
hookSuppresses(name, sel) ==
    /\ sel.kind = "Field" /\ sel.name # "__typename"
    /\ opts.getFieldName # "undefined"
    /\ hasField(name, sel.name)
    /\ getFieldName(opts, createSchema[name].fields[sel.name], createSchema[name]) = Null

\* The node, walked under name, with every Field selection the hook answers
\* null for either dropped (drop) or stripped of its sub-selection set.
RECURSIVE pruneSuppressed(_, _, _)
pruneSuppressed(name, node, drop) ==
    [node EXCEPT !.selections = concat(mapNodes(
        LAMBDA sel :
            IF hookSuppresses(name, sel)
            THEN IF drop THEN <<>>
                 ELSE <<[sel EXCEPT !.hasSelectionSet = FALSE, !.selections = <<>>]>>
            ELSE IF sel.kind = "Field" /\ sel.hasSelectionSet /\ hasField(name, sel.name)
            THEN <<pruneSuppressed(getNamedType(createSchema[name].fields[sel.name].type),
                                   sel, drop)>>
            ELSE IF sel.kind = "InlineFragment"
            THEN <<pruneSuppressed(IF sel.typeCondition # Null THEN sel.typeCondition ELSE name,
                                   sel, drop)>>
            ELSE <<sel>>,
        node.selections))]

\* The selections, walked under name, with every fragment that matches the
\* object type name replaced in place by the selections it contains.
RECURSIVE inlineMatching(_, _)
inlineMatching(name, selections) ==
    concat(mapNodes(
        LAMBDA sel :
            IF ~isObjectTypename(name) THEN <<sel>>
            ELSE IF /\ sel.kind = "FragmentSpread"
                    /\ sel.name \in DOMAIN info.fragments
                    /\ info.fragments[sel.name].typeCondition = name
            THEN inlineMatching(name, info.fragments[sel.name].selections)
            ELSE IF sel.kind = "InlineFragment" /\ sel.typeCondition \in {Null, name}
            THEN inlineMatching(name, sel.selections)
            ELSE IF sel.kind = "Field" /\ sel.hasSelectionSet /\ hasField(name, sel.name)
            THEN <<[sel EXCEPT !.selections =
                      inlineMatching(getNamedType(createSchema[name].fields[sel.name].type),
                                     sel.selections)]>>
            ELSE <<sel>>,
        selections))

\* A Field selection that nests single Field selections down to a leaf.
RECURSIVE isChain(_)
isChain(sel) ==
    /\ sel.kind = "Field" /\ sel.name # "__typename"
    /\ \/ ~sel.hasSelectionSet
       \/ Len(sel.selections) = 1 /\ isChain(sel.selections[1])

nameInMask(name, sel) ==
    LET field == createSchema[name].fields[sel.name]
    IN  IF opts.getFieldName = "undefined" THEN field.name
        ELSE getFieldName(opts, field, createSchema[name])

\* Every field of the chain exists, has one output name (the hook, when
\* configured, returns a string for it) and, above the leaf, an object type
\* as its named type.
RECURSIVE chainResolves(_, _)
chainResolves(name, sel) ==
    /\ hasField(name, sel.name)
    /\ nameInMask(name, sel) \notin {Null, ArrayAB}
    /\ getFieldNameThrows(opts, createSchema[name].fields[sel.name], createSchema[name]) = NoError
    /\ sel.hasSelectionSet =>
          LET child == getNamedType(createSchema[name].fields[sel.name].type)
          IN  isObjectTypename(child) /\ chainResolves(child, sel.selections[1])

\* The output names along the chain joined by '.', root first.
RECURSIVE chainPath(_, _)
chainPath(name, sel) ==
    IF ~sel.hasSelectionSet THEN nameInMask(name, sel)
    ELSE nameInMask(name, sel) \o "."
         \o chainPath(getNamedType(createSchema[name].fields[sel.name].type),
                      sel.selections[1])

isAbstractTypename(name) ==
    /\ name \in DOMAIN createSchema
    /\ createSchema[name].kind \in {"GraphQLUnionType", "GraphQLInterfaceType"}

\* A fragment spread with a known fragment, or an inline fragment with a
\* type condition.
isTypedFragment(sel) ==
    \/ sel.kind = "FragmentSpread" /\ sel.name \in DOMAIN info.fragments
    \/ sel.kind = "InlineFragment" /\ sel.typeCondition # Null

fragmentTypename(sel) ==
    IF sel.kind = "FragmentSpread" THEN info.fragments[sel.name].typeCondition
    ELSE sel.typeCondition

(***************************************************************************)
(* C1..C10                                                                 *)
(***************************************************************************)
\* C1: the list a call returns contains no string twice, whatever the
\* top-level nodes, fragments and selections request.
C1_NoDuplicatePaths ==
    Returned => \A a, b \in 1..Len(paths) : a # b => paths[a] # paths[b]

\* C1 witness: a call returned although two top-level nodes yielded the same path.
C1_Witness ==
    /\ Returned
    /\ Len(info.fieldNodes) = 2
    /\ Elements(walkOf(info.fieldNodes[1]).fields)
         \cap Elements(walkOf(info.fieldNodes[2]).fields) # {}

\* C2: the returned list is the walker's paths of the top-level nodes, node
\* after node and selection after selection, each path kept at the place of
\* its first occurrence and every later repetition dropped; it is not reordered.
C2_FirstOccurrenceOrder ==
    Returned =>
        LET walked == walkedPaths IN
        /\ walked = walkedBySelection
        /\ Elements(paths) = Elements(walked)
        /\ \A a, b \in 1..Len(paths) : a # b => paths[a] # paths[b]
        /\ \A a, b \in 1..Len(paths) :
              a < b => firstIndex(walked, paths[a]) < firstIndex(walked, paths[b])

\* C2 witness: a path is walked, another one after it, and then the first again.
C2_Witness ==
    /\ Returned
    /\ \E i, j, k \in 1..Len(walkedPaths) :
          /\ i < j /\ j < k
          /\ walkedPaths[i] = walkedPaths[k]
          /\ walkedPaths[i] # walkedPaths[j]
          /\ firstIndex(walkedPaths, walkedPaths[i]) < firstIndex(walkedPaths, walkedPaths[j])

\* C3: without a naming hook a path is built from the schema field's name,
\* never from the alias: the call does what it does on the alias-free query,
\* and a field selected under several aliases yields its one path once.
C3_AliasIndependence ==
    (pc # "called" /\ opts.getFieldName = "undefined") =>
        /\ outcome = outcomeOn(mapNodes(withoutAlias, info.fieldNodes))
        /\ Returned =>
              \A j \in 1..Len(topSelections) :
                 LET sel == topSelections[j] IN
                 (sel.kind = "Field" /\ ~sel.hasSelectionSet /\ sel.name # "__typename") =>
                     Cardinality({ k \in 1..Len(paths) : paths[k] = sel.name }) = 1

\* C3 witness: the same field selected once under an alias and once without.
C3_Witness ==
    /\ Returned
    /\ opts.getFieldName = "undefined"
    /\ \E i, j \in 1..Len(topSelections) :
          /\ topSelections[i].kind = "Field" /\ topSelections[j].kind = "Field"
          /\ topSelections[i].name = topSelections[j].name
          /\ topSelections[i].alias # Null /\ topSelections[j].alias = Null
    /\ paths = <<"targetField">>

\* C4: a __typename selection contributes no path, no lookup and no hook
\* invocation under any hook: the call does exactly what it does on the query
\* without the __typename selections.
C4_TypenameExcluded ==
    pc # "called" =>
        /\ outcome = outcomeOn(mapNodes(withoutTypename, info.fieldNodes))
        /\ "__typename" \notin Elements(paths)

\* C4 witness: __typename next to a field that yields a path, with a hook.
C4_Witness ==
    /\ Returned
    /\ opts.getFieldName # "undefined"
    /\ \E j \in 1..Len(topSelections) :
          topSelections[j].kind = "Field" /\ topSelections[j].name = "__typename"
    /\ paths # <<>>

\* C5: a Field selection the naming hook answers null for contributes no
\* path, its sub-selection set is not walked and no hook is invoked below it
\* (the call does, lookups and hook invocations included, what it does when
\* the selection has no sub-selection set), and its siblings are unaffected
\* (the call returns or throws what it does when the selection is absent).
C5_SuppressedSubtreeIgnored ==
    (pc # "called" /\ opts.getFieldName # "undefined") =>
        /\ outcome = outcomeOn(mapNodes(LAMBDA node : pruneSuppressed(typename, node, FALSE),
                                        info.fieldNodes))
        /\ LET absent == outcomeOn(mapNodes(LAMBDA node : pruneSuppressed(typename, node, TRUE),
                                            info.fieldNodes))
           IN  absent.err = error /\ absent.paths = paths

\* C5 witness: a suppressed field with a sub-selection set, next to a sibling
\* that yields a path.
C5_Witness ==
    /\ Returned
    /\ \E j \in 1..Len(topSelections) :
          /\ hookSuppresses(typename, topSelections[j])
          /\ topSelections[j].hasSelectionSet
          /\ topSelections[j].selections # <<>>
    /\ paths # <<>>

\* C6: under an object type T a fragment spread whose fragment is on T, an
\* inline fragment on T and an inline fragment without type condition are
\* transparent: replacing each by its selections, in place, changes nothing
\* of what the call does.
C6_FragmentTransparency ==
    pc # "called" =>
        outcome = outcomeOn(mapNodes(
            LAMBDA node : [node EXCEPT !.selections = inlineMatching(typename, @)],
            info.fieldNodes))

\* C6 witness: a spread of a fragment on the root type and an inline fragment
\* without type condition, both yielding paths.
C6_Witness ==
    /\ Returned
    /\ isObjectTypename(typename)
    /\ \E i, j \in 1..Len(topSelections) :
          /\ topSelections[i].kind = "FragmentSpread"
          /\ topSelections[i].name \in DOMAIN info.fragments
          /\ info.fragments[topSelections[i].name].typeCondition = typename
          /\ topSelections[j].kind = "InlineFragment"
          /\ topSelections[j].typeCondition = Null
    /\ Len(paths) >= 2

\* C7: a chain of nested object-typed Field selections down to a leaf yields
\* the output names along the chain joined by '.', root first, each field
\* looked up on the named type of the enclosing field.
C7_NestedPath ==
    pc # "called" =>
        /\ \A j \in 1..Len(topSelections) :
              (isChain(topSelections[j]) /\ chainResolves(typename, topSelections[j])) =>
                  /\ Len(topSelections) = 1 =>
                        Returned /\ paths = <<chainPath(typename, topSelections[j])>>
                  /\ Returned => chainPath(typename, topSelections[j]) \in Elements(paths)
        /\ ( /\ typename = "Query"
             /\ opts.getFieldName # "fanOut"
             /\ topSelections =
                  <<FieldNodeWith(Null, "parent",
                      <<FieldNodeWith(Null, "object1", <<FieldNode(Null, "targetField")>>)>>)>> ) =>
             paths = IF opts.getFieldName = "renaming" THEN <<"parent.c.targetField">>
                     ELSE IF opts.getFieldName = "undefined"
                     THEN <<"parent.object1.targetField">>
                     ELSE <<>>

\* C7 witness: parent { object1 { targetField } } with object1 renamed to c.
C7_Witness ==
    /\ Returned
    /\ typename = "Query"
    /\ opts.getFieldName = "renaming"
    /\ Len(topSelections) = 1
    /\ isChain(topSelections[1])
    /\ paths = <<"parent.c.targetField">>

\* C8: without an abstract-type-path hook, under a field declared with a
\* union or interface type, fragments on concrete member types contribute no
\* path; a call whose only selection is such a field with member fragments
\* returns the empty list.
C8_MemberFragmentsIgnored ==
    (Returned /\ opts.getAbstractTypeFieldMaskPaths = "undefined") =>
        \A j \in 1..Len(topSelections) :
           LET sel == topSelections[j] IN
           ( /\ sel.kind = "Field" /\ sel.hasSelectionSet
             /\ hasField(typename, sel.name)
             /\ isAbstractTypename(getNamedType(createSchema[typename].fields[sel.name].type))
             /\ \A k \in 1..Len(sel.selections) :
                   /\ isTypedFragment(sel.selections[k])
                   /\ isObjectTypename(fragmentTypename(sel.selections[k])) ) =>
               /\ walkOf(FieldNodeWith(Null, "resolved", <<sel>>)).fields = <<>>
               /\ Len(topSelections) = 1 => paths = <<>>

\* C9: under a concrete object type a fragment on a different concrete
\* object type contributes nothing: the call returns or throws what it does
\* on the query without such fragments.
C9_OtherObjectFragmentIgnored ==
    (pc # "called" /\ isObjectTypename(typename)) =>
        LET without == outcomeOn(mapNodes(
                LAMBDA node : [node EXCEPT !.selections =
                    SelectSeq(@, LAMBDA sel :
                        ~( /\ isTypedFragment(sel)
                           /\ isObjectTypename(fragmentTypename(sel))
                           /\ fragmentTypename(sel) # typename ))],
                info.fieldNodes))
        IN  without.err = error /\ without.paths = paths

\* C10: under a concrete object type a fragment on an abstract type is
\* walked with the concrete typename unchanged, so the member fragments in it
\* are filtered against that typename: a call whose selections are such
\* fragments returns only fields of the root type, and { ...Union } returns
\* the fields of Object1 for Object1 and of Object2 for Object2.
C10_AbstractFragmentKeepsTypename ==
    ( /\ pc # "called"
      /\ isObjectTypename(typename)
      /\ opts.getFieldName = "undefined"
      /\ \A j \in 1..Len(topSelections) :
            /\ isTypedFragment(topSelections[j])
            /\ isAbstractTypename(fragmentTypename(topSelections[j])) ) =>
        /\ Returned => Elements(paths) \subseteq DOMAIN createSchema[typename].fields
        /\ (typename = "Object1" /\ topSelections = <<FragmentSpreadNode("Union")>>) =>
              paths = <<"targetField", "otherField">>
        /\ (typename = "Object2" /\ topSelections = <<FragmentSpreadNode("Union")>>) =>
              paths = <<"field2">>

\* ---------------------------------------------------------------------
\* C11..C20
\* ---------------------------------------------------------------------

\* A Field selection other than __typename.
isPlainField(sel) == sel.kind = "Field" /\ sel.name # "__typename"

lastEvent == log[Len(log)]

\* The names a Field selection of the call can carry.
FieldNames ==
    UNION { DOMAIN createSchema[name].fields :
              name \in { n \in DOMAIN createSchema : isObjectTypename(n) } }

\* The unknown-field messages of the types and fields of the schema.
UnknownFieldMessages ==
    { name \o "." \o fieldName \o " is not found" :
        name \in DOMAIN createSchema, fieldName \in FieldNames }

unknownTypeMessage(name) == name \o " type is not found"

notObjectTypeMessage(name) ==
    name \o " is " \o createSchema[name].astNodeKind \o ", but want ObjectType"

\* C11 (as stated): a call with a root typename absent from the schema raises
\* the unknown-type error whatever the top-level selection sets contain, and
\* nothing but the lookup of the root type has happened by then.
C11_UnknownTypenameAlwaysRaises ==
    (pc # "called" /\ typename \notin DOMAIN createSchema) =>
        /\ pc = "thrown"
        /\ error = unknownTypeMessage(typename)
        /\ \A k \in 1..Len(log) : log[k] = <<"getType", typename, Null>>

\* C11 (amended): with a root typename absent from the schema the
\* unknown-type error is raised when the walker visits a non-__typename Field
\* selection directly under the root typename, after the type lookup and
\* before any field lookup or naming-hook call for that selection: a call
\* that has such a top-level selection throws, with the unknown-type error
\* when it is the first selection, and a call whose top-level selections are
\* all __typename returns the empty list without any lookup.
C11_UnknownTypenameAtField ==
    (pc # "called" /\ typename \notin DOMAIN createSchema) =>
        /\ (\E j \in 1..Len(topSelections) : isPlainField(topSelections[j]))
              => pc = "thrown"
        /\ isPlainField(topSelections[1])
              => /\ error = unknownTypeMessage(typename)
                 /\ log = << <<"getType", typename, Null>> >>
        /\ error = unknownTypeMessage(typename)
              => /\ pc = "thrown"
                 /\ lastEvent = <<"getType", typename, Null>>
                 /\ \A k \in 1..Len(log) : log[k][2] = typename => log[k][1] = "getType"
        /\ (\A j \in 1..Len(topSelections) :
               topSelections[j].kind = "Field" /\ topSelections[j].name = "__typename")
              => Returned /\ paths = <<>> /\ log = <<>>

\* The unknown-type error reaches the caller from a Field selection that
\* follows a __typename selection.
C11_Witness ==
    /\ pc = "thrown"
    /\ typename \notin DOMAIN createSchema
    /\ error = unknownTypeMessage(typename)
    /\ Len(topSelections) = 2
    /\ topSelections[1].name = "__typename"
    /\ isPlainField(topSelections[2])

\* C12: a visited non-__typename Field selection whose name is not a field
\* of the object type of the current typename makes the call throw the
\* unknown-field error naming the typename and the field, and the naming
\* hook is not invoked for that selection (the field lookup is the last
\* thing that happened).
C12_UnknownFieldRaises ==
    pc # "called" =>
        /\ (/\ isObjectTypename(typename)
            /\ \E j \in 1..Len(topSelections) :
                  isPlainField(topSelections[j]) /\ ~hasField(typename, topSelections[j].name))
              => pc = "thrown"
        /\ (/\ isObjectTypename(typename)
            /\ isPlainField(topSelections[1])
            /\ ~hasField(typename, topSelections[1].name))
              => /\ error = typename \o "." \o topSelections[1].name \o " is not found"
                 /\ log = << <<"getType", typename, Null>>,
                             <<"getFields", typename, topSelections[1].name>> >>
        /\ (/\ log # <<>>
            /\ lastEvent[1] = "getFields"
            /\ ~hasField(lastEvent[2], lastEvent[3]))
              => /\ pc = "thrown"
                 /\ error = lastEvent[2] \o "." \o lastEvent[3] \o " is not found"
        /\ error \in UnknownFieldMessages
              => /\ pc = "thrown"
                 /\ log # <<>>
                 /\ lastEvent[1] = "getFields"
                 /\ ~hasField(lastEvent[2], lastEvent[3])
                 /\ error = lastEvent[2] \o "." \o lastEvent[3] \o " is not found"

\* The unknown-field error is thrown with a naming hook configured that was
\* invoked for an earlier selection of the same call.
C12_Witness ==
    /\ pc = "thrown"
    /\ error = "Object2.targetField is not found"
    /\ opts.getFieldName # "undefined"
    /\ Len(log) > 2
    /\ \E k \in 1..Len(log) : log[k][1] = "getFieldName"
    /\ lastEvent = <<"getFields", "Object2", "targetField">>

\* The error the walk of the k-th top-level node of the call throws.
nodeError(k) == walkOf(info.fieldNodes[k]).err

\* The error the j-th top-level selection throws when walked on its own.
selectionError(j) == walkOf(FieldNodeWith(Null, "resolved", <<topSelections[j]>>)).err

\* C16: when the walk of any top-level node throws, the call throws the error
\* of the first such node, exactly as the walker raised it, and returns no
\* path list, whatever the earlier selections and nodes produced; the call
\* returns only when no node and no selection throws.
C16_NoPartialResult ==
    /\ pc = "thrown" =>
          /\ paths = <<>>
          /\ error # NoError
          /\ \E k \in 1..Len(info.fieldNodes) :
                /\ nodeError(k) = error
                /\ \A m \in 1..(k - 1) : nodeError(m) = NoError
          /\ \E j \in 1..Len(topSelections) : selectionError(j) = error
    /\ pc = "returned" =>
          /\ error = NoError
          /\ \A k \in 1..Len(info.fieldNodes) : nodeError(k) = NoError
          /\ \A j \in 1..Len(topSelections) : selectionError(j) = NoError

\* The second top-level node throws after the first one produced paths.
C16_Witness ==
    /\ pc = "thrown"
    /\ paths = <<>>
    /\ Len(info.fieldNodes) = 2
    /\ nodeError(1) = NoError
    /\ walkOf(info.fieldNodes[1]).fields # <<>>
    /\ error = nodeError(2)

\* C18: a non-__typename Field selection directly under a typename that the
\* schema has but that is not an object type makes the call throw the
\* not-an-object-type error, which differs from the unknown-type error of a
\* name the schema does not have.
C18_NotObjectTypeRaises ==
    (pc # "called" /\ typename \in DOMAIN createSchema /\ ~isObjectTypename(typename)) =>
        /\ (\E j \in 1..Len(topSelections) : isPlainField(topSelections[j]))
              => pc = "thrown"
        /\ isPlainField(topSelections[1])
              => /\ error = notObjectTypeMessage(typename)
                 /\ error # unknownTypeMessage(typename)
                 /\ log = << <<"getType", typename, Null>> >>
        /\ error # unknownTypeMessage(typename)

\* The not-an-object-type error is thrown for a field under the union type.
C18_Witness ==
    /\ pc = "thrown"
    /\ typename = "UnionType"
    /\ isPlainField(topSelections[1])
    /\ error = "UnionType is undefined, but want ObjectType"

\* A spread of a fragment the fragment table does not have.
isUnknownSpread(sel) ==
    sel.kind = "FragmentSpread" /\ sel.name \notin DOMAIN info.fragments

\* C19: a fragment spread the walker reaches whose name is not in the
\* fragment table makes the call throw the unknown-fragment error, under
\* every current typename and with no lookup made for the fragment.
C19_UnknownFragmentRaises ==
    pc # "called" =>
        /\ (\E j \in 1..Len(topSelections) : isUnknownSpread(topSelections[j]))
              => pc = "thrown"
        /\ isUnknownSpread(topSelections[1])
              => /\ error = "Fragment " \o topSelections[1].name \o " is not found"
                 /\ log = <<>>
        /\ \A j \in 1..Len(topSelections) :
              ( /\ isUnknownSpread(topSelections[j])
                /\ \A i \in 1..Len(topSelections) : i # j => selectionError(i) = NoError )
                 => /\ error = "Fragment " \o topSelections[j].name \o " is not found"
                    /\ log = outcomeOn(<<FieldNodeWith(Null, "resolved",
                                           SubSeq(topSelections, 1, j - 1))>>).log

\* The unknown-fragment error is thrown under a typename that is not an
\* object type, after an earlier selection was walked.
C19_Witness ==
    /\ pc = "thrown"
    /\ error = "Fragment Missing is not found"
    /\ ~isObjectTypename(typename)
    /\ Len(topSelections) = 2
    /\ isUnknownSpread(topSelections[2])
    /\ log # <<>>

\* The names in the array a fan-out hook returned.
namesOf(fieldName) == IF fieldName = ArrayAB THEN {"a", "b"} ELSE {fieldName}

\* The sole top-level selection of the call is a Field selection with a
\* sub-selection set that names a field of the root object type.
soleNestedField ==
    /\ Len(topSelections) = 1
    /\ isPlainField(topSelections[1])
    /\ topSelections[1].hasSelectionSet
    /\ hasField(typename, topSelections[1].name)

soleFieldDef == createSchema[typename].fields[topSelections[1].name]

\* C13: when the naming hook returns several names for a Field selection
\* with a sub-selection set, the call returns the full cross product
\* name + '.' + childPath: names [a, b] with child paths {x, y} give exactly
\* {a.x, a.y, b.x, b.y}.
C13_FanOutCrossProduct ==
    ( /\ pc # "called"
      /\ opts.getFieldName # "undefined"
      /\ soleNestedField
      /\ getFieldName(opts, soleFieldDef, createSchema[typename]) = ArrayAB ) =>
        LET child == extractFieldsFromGraphqlAst(getNamedType(soleFieldDef.type),
                                                 topSelections[1], info.fragments, opts)
        IN  child.err = NoError =>
              /\ Returned
              /\ Elements(paths) =
                    { name \o "." \o childPath :
                        name \in namesOf(ArrayAB), childPath \in Elements(child.fields) }
              /\ Elements(child.fields) = {"x", "y"}
                    => Elements(paths) = {"a.x", "a.y", "b.x", "b.y"}

\* The fragment definition or inline fragment a typed fragment selection
\* stands for.
fragmentNode(sel) ==
    IF sel.kind = "FragmentSpread" THEN info.fragments[sel.name] ELSE sel

\* The sub-selections of the sole top-level field are fragments on object
\* types.
soleFieldOfMemberFragments ==
    /\ soleNestedField
    /\ isAbstractTypename(getNamedType(soleFieldDef.type))
    /\ \A k \in 1..Len(topSelections[1].selections) :
          /\ isTypedFragment(topSelections[1].selections[k])
          /\ isObjectTypename(fragmentTypename(topSelections[1].selections[k]))

\* What the walker yields for the k-th member fragment of the sole top-level
\* field, walked under the member typename.
memberWalk(k) ==
    LET sel == topSelections[1].selections[k]
    IN  extractFieldsFromGraphqlAst(fragmentTypename(sel), fragmentNode(sel),
                                    info.fragments, opts)

\* The prefix the abstract-type-path hook puts before a member's paths.
memberPrefix(name) == IF name = "Object1" THEN "object1" ELSE "object2"

\* C14: with an abstract-type-path hook that prefixes by member, each member
\* fragment under a field of union type contributes the member's own paths
\* (computed with the member typename) behind the member's prefix: Parent
\* with union { ... on Object1 { targetField otherField } ...Object2 } returns
\* union.object1.targetField, union.object1.otherField, union.object2.field2.
C14_AbstractHookPrefixesMembers ==
    ( /\ pc # "called"
      /\ opts.getAbstractTypeFieldMaskPaths = "prefixByMember"
      /\ soleFieldOfMemberFragments
      /\ \A k \in 1..Len(topSelections[1].selections) : memberWalk(k).err = NoError ) =>
        /\ Returned
        /\ paths = mapPrefix(soleFieldDef.name,
              concat([k \in 1..Len(topSelections[1].selections) |->
                  mapPrefix(memberPrefix(fragmentTypename(topSelections[1].selections[k])),
                            memberWalk(k).fields)]))
        /\ (typename = "Parent" /\ topSelections[1].name = "union") =>
              paths = <<"union.object1.targetField", "union.object1.otherField",
                        "union.object2.field2">>

\* What the extra-fields hook returns for a field.
addExtraFields(field) == IF field.name = "object1" THEN <<"dep1", "dep2">> ELSE <<>>

\* C15: with an extra-fields hook configured, the strings the hook returns
\* for a visited Field selection are in the result verbatim, before the
\* selection's own paths, and the sub-selection still contributes its nested
\* paths: object1 { targetField otherField } with dep1, dep2 for object1
\* returns dep1, dep2, object1.targetField, object1.otherField.
C15_ExtraFieldsAppended ==
    ( /\ pc # "called"
      /\ opts.addExtraFields = "deps"
      /\ soleNestedField
      /\ isObjectTypename(getNamedType(soleFieldDef.type)) ) =>
        LET child == extractFieldsFromGraphqlAst(getNamedType(soleFieldDef.type),
                                                 topSelections[1], info.fragments, opts)
        IN  child.err = NoError =>
              /\ Returned
              /\ paths = addAll(addExtraFields(soleFieldDef),
                                mapPrefix(soleFieldDef.name, child.fields))
              /\ soleFieldDef.name = "object1" =>
                    /\ SubSeq(paths, 1, 2) = <<"dep1", "dep2">>
                    /\ \A k \in 3..Len(paths) : paths[k] \notin {"dep1", "dep2"}

typeConditionOf(sel) ==
    IF sel.kind = "FragmentSpread" THEN info.fragments[sel.name].typeCondition
    ELSE sel.typeCondition

\* C20: at a fragment spread or inline fragment both the fragment's type
\* condition and the current typename are resolved in the schema, so the
\* call throws the unknown-type error when either names a type the schema
\* does not have, whatever the fragment's selection set contains.
C20_FragmentTypesResolved ==
    pc # "called" =>
        \A j \in 1..Len(topSelections) :
           LET sel == topSelections[j] IN
           ( /\ sel.kind \in {"FragmentSpread", "InlineFragment"}
             /\ ~isUnknownSpread(sel)
             /\ typeConditionOf(sel) # Null
             /\ \/ typeConditionOf(sel) \notin DOMAIN createSchema
                \/ typename \notin DOMAIN createSchema ) =>
               /\ pc = "thrown"
               /\ j = 1 => error \in { unknownTypeMessage(typeConditionOf(sel)),
                                       unknownTypeMessage(typename) }

\* ---------------------------------------------------------------------
\* C21..C26
\* ---------------------------------------------------------------------

\* The call has ended, with a list or with an error.
Ended == pc \in {"returned", "thrown"}

\* No fragment reachable from the top-level nodes of the call spreads itself.
Acyclic == ~reachesCycle(info.fieldNodes, info.fragments)

\* The outcome a call with the root typename name has on the nodes, fragment
\* table and options of this call when nothing else runs.
aloneOutcome(name) ==
    LET out == fieldMaskPaths(name, info.fieldNodes, info.fragments, opts)
    IN  [err |-> out.err, paths |-> IF out.err = NoError THEN out.pathSet ELSE <<>>]

\* C23: a call accumulates into a Set of its own, so what it returns or
\* throws depends on its arguments alone: it is what the call yields when
\* nothing else runs, whether or not another call on the same nodes, with
\* the same or another root typename, ran before it or from inside it; and
\* the same holds of that other call.
C23_CallsIndependent ==
    Acyclic =>
        /\ Ended => [err |-> error, paths |-> paths] = aloneOutcome(typename)
        /\ other.done =>
              [err |-> other.err, paths |-> other.paths] = aloneOutcome(other.typename)

\* Two calls on the same nodes, with different root typenames, both returned,
\* each the list of its own Set, and the lists differ.
C23_Witness ==
    /\ pc = "returned"
    /\ other.done
    /\ other.typename # typename
    /\ other.err = NoError
    /\ paths # <<>>
    /\ paths # other.paths
    /\ pathSets[accumulator(1)] = paths
    /\ pathSets[accumulator(2)] = other.paths

\* The first top-level selection of the call spreads a fragment of the
\* table that spreads itself, directly or through other fragments.
walksIntoCycle ==
    LET first == info.fieldNodes[1].selections[1]
    IN  /\ first.kind = "FragmentSpread"
        /\ first.name \in DOMAIN info.fragments
        /\ first.name \in spreadClosure(spreadsIn(info.fragments[first.name].selections),
                                        info.fragments)

\* C24: when no fragment reachable from the top-level nodes spreads itself,
\* the call ends, with a list or with an error, and never by exhausting the
\* stack; nothing but that acyclicity bounds the recursion: a walk that
\* enters a fragment that spreads itself ends only when the stack is
\* exhausted.
C24_Termination ==
    /\ [](Acyclic => error # StackOverflow)
    /\ Acyclic ~> Ended
    /\ walksIntoCycle ~> (pc = "thrown" /\ error = StackOverflow)

\* A call returned after following a fragment that spreads other fragments,
\* with a fragment table that also holds fragments that spread themselves.
C24_Witness ==
    /\ pc = "returned"
    /\ Acyclic
    /\ info.fragments = CyclicFragments
    /\ "Union" \in spreadsIn(info.fieldNodes)
    /\ paths # <<>>

\* A Field selection with a sub-selection set that names a field of the
\* type name for which the call has an output name.
isNestedField(name, sel) ==
    /\ isPlainField(sel)
    /\ sel.hasSelectionSet
    /\ hasField(name, sel.name)
    /\ nameInMask(name, sel) # Null

\* What the walk of the sub-selection set of a nested Field selection yields.
childWalk(name, sel) ==
    extractFieldsFromGraphqlAst(getNamedType(createSchema[name].fields[sel.name].type),
                                sel, info.fragments, opts)

\* C25: a Field selection with a sub-selection set yields one path per path
\* of its sub-selection set and never its own output name alone, so it
\* yields nothing when the walk of the sub-selection set yields nothing; a
\* call whose top-level selections are all of that kind returns the empty
\* list.
C25_EmptyChildNoPath ==
    (pc = "returned" /\ Acyclic) =>
        /\ \A j \in 1..Len(topSelections) :
              isNestedField(typename, topSelections[j]) =>
                 LET own == walkOf(FieldNodeWith(Null, "resolved", <<topSelections[j]>>)).fields
                     child == childWalk(typename, topSelections[j]).fields
                 IN  /\ Len(own) = Len(child)
                     /\ child = <<>> => own = <<>>
                     /\ templateString(nameInMask(typename, topSelections[j]))
                           \notin Elements(own)
        /\ (\A j \in 1..Len(topSelections) :
               /\ isNestedField(typename, topSelections[j])
               /\ childWalk(typename, topSelections[j]).fields = <<>>)
              => paths = <<>>

\* A call returned the empty list for object1 { otherField }, the hook
\* answering null for otherField.
C25_Witness ==
    /\ pc = "returned"
    /\ paths = <<>>
    /\ opts.getFieldName = "extensions"
    /\ \E j \in 1..Len(topSelections) :
          /\ isNestedField(typename, topSelections[j])
          /\ topSelections[j].selections # <<>>
          /\ topSelections[j].selections[1].name = "otherField"

\* A Field selection of a field of the type name declared with an abstract
\* type whose sub-selection set is one fragment on that abstract type itself.
isWrapped(name, sel) ==
    /\ isPlainField(sel)
    /\ sel.hasSelectionSet
    /\ hasField(name, sel.name)
    /\ isAbstractTypename(getNamedType(createSchema[name].fields[sel.name].type))
    /\ Len(sel.selections) = 1
    /\ isTypedFragment(sel.selections[1])
    /\ fragmentTypename(sel.selections[1])
          = getNamedType(createSchema[name].fields[sel.name].type)

\* The top-level nodes of the call with the sub-selections of every wrapping
\* fragment selected directly.
unwrapped ==
    mapNodes(LAMBDA node : [node EXCEPT !.selections =
        mapNodes(LAMBDA sel :
                    IF isWrapped(typename, sel)
                    THEN [sel EXCEPT !.selections = fragmentNode(sel.selections[1]).selections]
                    ELSE sel,
                 node.selections)],
        info.fieldNodes)

\* C21: for a field declared with an abstract type A, wrapping the field's
\* sub-selections in a fragment on A itself, spread or inline, changes
\* nothing: the call returns or throws what it does when the sub-selections
\* are selected directly, with and without an abstract-type-path hook.
C21_AbstractWrapperTransparent ==
    (Ended /\ Acyclic) =>
        LET direct == outcomeOn(unwrapped)
        IN  error = direct.err /\ paths = direct.paths

\* A call returned paths for union { ...Union }, the fragment Union being on
\* the union type of the field, with an abstract-type-path hook configured.
C21_Witness ==
    /\ pc = "returned"
    /\ paths # <<>>
    /\ opts.getAbstractTypeFieldMaskPaths # "undefined"
    /\ Len(topSelections) = 1
    /\ isWrapped(typename, topSelections[1])
    /\ topSelections[1].selections[1].kind = "FragmentSpread"

\* No hook is configured.
NoHooks ==
    /\ opts.getFieldName = "undefined"
    /\ opts.getAbstractTypeFieldMaskPaths = "undefined"
    /\ opts.addExtraFields = "undefined"

\* The paths of field names that start at a field declared on the object
\* type name and continue, segment by segment, with a field declared on the
\* named type of the segment before.
RECURSIVE relativePaths(_)
relativePaths(name) ==
    IF ~isObjectTypename(name) THEN {}
    ELSE UNION { {fieldName} \cup
                 { fieldName \o "." \o path :
                     path \in relativePaths(
                         getNamedType(createSchema[name].fields[fieldName].type)) } :
                 fieldName \in DOMAIN createSchema[name].fields }

\* C22: with no hooks configured every returned path is relative to the root
\* typename of the call: its first segment is a field declared on that
\* object type, and each further segment a field declared on the named type
\* of the segment before.
C22_PathsRelativeToTypename ==
    (pc = "returned" /\ NoHooks) => Elements(paths) \subseteq relativePaths(typename)

\* The selections are well formed under the type name: every Field selection
\* names a field of the type and has a sub-selection set exactly when the
\* field's named type is an object, union or interface type.
RECURSIVE wellFormed(_, _)
wellFormed(name, selections) ==
    \A k \in 1..Len(selections) :
        LET sel == selections[k] IN
        IF sel.kind = "FragmentSpread"
        THEN /\ sel.name \in DOMAIN info.fragments
             /\ wellFormed(info.fragments[sel.name].typeCondition,
                           info.fragments[sel.name].selections)
        ELSE IF sel.kind = "InlineFragment"
        THEN wellFormed(IF sel.typeCondition # Null THEN sel.typeCondition ELSE name,
                        sel.selections)
        ELSE IF sel.name = "__typename" THEN TRUE
        ELSE IF isAbstractTypename(name) \/ ~hasField(name, sel.name) THEN FALSE
        ELSE LET child == getNamedType(createSchema[name].fields[sel.name].type)
             IN  /\ sel.hasSelectionSet <=> (isObjectTypename(child) \/ isAbstractTypename(child))
                 /\ wellFormed(child, sel.selections)

\* The pairs of a path and a path it is a strict dot-prefix of.
StrictPrefixPairs ==
    LET all == UNION { relativePaths(name) : name \in DOMAIN createSchema }
    IN  { <<path, path \o "." \o more>> : path \in all, more \in all }

\* C26: with no hooks configured and a query whose Field selections have a
\* sub-selection set exactly when their field's named type is an object,
\* union or interface type, no returned path is a strict dot-prefix of
\* another returned path.
C26_NoPathPrefixOfAnother ==
    (pc = "returned" /\ NoHooks /\ Acyclic /\ wellFormed(typename, topSelections)) =>
        \A a, b \in 1..Len(paths) : <<paths[a], paths[b]>> \notin StrictPrefixPairs


====
